---- MODULE Spec2Model ----
(***************************************************************************)
(* Model of the Inventory class of src/main.py: a product ledger kept in   *)
(* one JSON file.  Every operation loads the whole file, acts on the       *)
(* loaded dict and (when it mutates) writes the whole dict back.           *)
(*                                                                         *)
(* Representation.                                                         *)
(*   - Text (a Python str) is a sequence of pieces.  Numeric text is held  *)
(*     one character per piece (<<"-","1","0">>), so that int(), float()   *)
(*     and str() are computed on the characters; other text (names,        *)
(*     descriptions, messages) is held in larger pieces.                   *)
(*   - A Python value is a record [k, v]: k is the type ("str", "int",     *)
(*     "float", "none", "list", "dict", "raise"), v the payload.  A float  *)
(*     is held in hundredths (250 is 2.5).                                 *)
(*   - A Python dict is the sequence of its [key, val] items in insertion  *)
(*     order.                                                              *)
(*   - The content of the file is the sequence of JSON tokens that         *)
(*     json.dumps writes: braces, strings and numbers (colons, commas and  *)
(*     the indentation are left out).  json.loads is a parser of tokens.   *)
(***************************************************************************)
EXTENDS Integers, Sequences, FiniteSets, TLC

VARIABLES file, last, procs, steps

vars == <<file, last, procs, steps>>

(***************************************************************************)
(* Bounds of the model.                                                    *)
(***************************************************************************)
\* Largest absolute stock value a mutating call may persist.
MaxStock == 3

\* Largest absolute quantity passed to sell_product.
MaxQuantity == 2

(***************************************************************************)
(* Python values.                                                          *)
(***************************************************************************)
StrVal(s) == [k |-> "str", v |-> s]

IntVal(n) == [k |-> "int", v |-> n]

FloatVal(h) == [k |-> "float", v |-> h]

NoneVal == [k |-> "none", v |-> 0]

ListVal(s) == [k |-> "list", v |-> s]

DictVal(d) == [k |-> "dict", v |-> d]

RaiseVal(e) == [k |-> "raise", v |-> e]

Digits == <<"0", "1", "2", "3", "4", "5", "6", "7", "8", "9">>

IsDigit(c) == \E i \in 1..10 : Digits[i] = c

DigitOf(c) == CHOOSE d \in 0..9 : Digits[d + 1] = c

RECURSIVE NatText(_)
NatText(n) ==
    IF n < 10 THEN <<Digits[n + 1]>>
    ELSE NatText(n \div 10) \o <<Digits[(n % 10) + 1]>>

\* str(n) of a Python int: an optional minus sign and the decimal digits.
IntText(n) == IF n < 0 THEN <<"-">> \o NatText(-n) ELSE NatText(n)

FractionText(frac) ==
    IF frac % 10 = 0 THEN <<Digits[(frac \div 10) + 1]>>
    ELSE <<Digits[(frac \div 10) + 1], Digits[(frac % 10) + 1]>>

\* repr of a float held in hundredths: the shortest text that reads back,
\* with at least one fraction digit (2.5, 3.0, 29.99).
FloatText(h) ==
    IF h < 0 THEN <<"-">> \o NatText((-h) \div 100) \o <<".">> \o FractionText((-h) % 100)
    ELSE NatText(h \div 100) \o <<".">> \o FractionText(h % 100)

\* str(x)
py_str(x) ==
    IF x.k = "str" THEN x
    ELSE IF x.k = "int" THEN StrVal(IntText(x.v))
    ELSE IF x.k = "float" THEN StrVal(FloatText(x.v))
    ELSE StrVal(<<"None">>)

RECURSIVE LStrip(_)
LStrip(s) == IF s # <<>> /\ s[1] = " " THEN LStrip(Tail(s)) ELSE s

RECURSIVE RStrip(_)
RStrip(s) ==
    IF s # <<>> /\ s[Len(s)] = " " THEN RStrip(SubSeq(s, 1, Len(s) - 1)) ELSE s

Strip(s) == RStrip(LStrip(s))

AllDigits(s) == s # <<>> /\ \A i \in 1..Len(s) : IsDigit(s[i])

RECURSIVE DigitsValue(_)
DigitsValue(s) ==
    IF s = <<>> THEN 0
    ELSE DigitsValue(SubSeq(s, 1, Len(s) - 1)) * 10 + DigitOf(s[Len(s)])

\* The sign of numeric text and the text after the sign.
SignOf(s) == IF s # <<>> /\ s[1] = "-" THEN -1 ELSE 1

Unsigned(s) == IF s # <<>> /\ s[1] \in {"-", "+"} THEN Tail(s) ELSE s

IntOfUnsigned(sign, u) ==
    IF AllDigits(u) THEN [ok |-> TRUE, n |-> sign * DigitsValue(u)]
    ELSE [ok |-> FALSE, n |-> 0]

IntOfStripped(t) == IntOfUnsigned(SignOf(t), Unsigned(t))

\* int(x): [ok, n]; ok = FALSE is ValueError.  Text is stripped of blanks,
\* takes an optional sign and needs at least one digit and nothing else
\* (underscores between digits are not among the model's inputs).
py_int(x) ==
    IF x.k = "int" THEN [ok |-> TRUE, n |-> x.v]
    ELSE IF x.k = "float"
    THEN [ok |-> TRUE,
          n |-> IF x.v < 0 THEN -((-x.v) \div 100) ELSE x.v \div 100]
    ELSE IF x.k = "str" THEN IntOfStripped(Strip(x.v))
    ELSE [ok |-> FALSE, n |-> 0]

\* The position of the decimal point in s, 0 when there is none.
PointAt(s) ==
    IF \E i \in 1..Len(s) : s[i] = "."
    THEN CHOOSE i \in 1..Len(s) : s[i] = "." /\ \A j \in 1..(i - 1) : s[j] # "."
    ELSE 0

\* The hundredths of a fraction of one or two digits.
FractionValue(frac) ==
    IF frac = <<>> THEN 0
    ELSE IF Len(frac) = 1 THEN 10 * DigitsValue(frac)
    ELSE DigitsValue(frac)

\* The float read from a sign, the digits before the point and those after.
FloatOfParts(sign, whole, frac) ==
    IF /\ whole = <<>> \/ AllDigits(whole)
       /\ frac = <<>> \/ (AllDigits(frac) /\ Len(frac) <= 2)
       /\ whole # <<>> \/ frac # <<>>
    THEN [ok |-> TRUE, h |-> sign * (100 * DigitsValue(whole) + FractionValue(frac))]
    ELSE [ok |-> FALSE, h |-> 0]

FloatOfText(sign, u, p) ==
    IF p = 0 THEN FloatOfParts(sign, u, <<>>)
    ELSE FloatOfParts(sign, SubSeq(u, 1, p - 1), SubSeq(u, p + 1, Len(u)))

FloatOfUnsigned(sign, u) == FloatOfText(sign, u, PointAt(u))

FloatOfStripped(t) == FloatOfUnsigned(SignOf(t), Unsigned(t))

\* float(x): [ok, h] in hundredths; ok = FALSE is ValueError.  Text is
\* stripped of blanks, then a sign, digits, and an optional point with up to
\* two fraction digits (exponents, inf and nan are not among the model's
\* inputs).
py_float(x) ==
    IF x.k = "float" THEN [ok |-> TRUE, h |-> x.v]
    ELSE IF x.k = "int" THEN [ok |-> TRUE, h |-> x.v * 100]
    ELSE IF x.k = "str" THEN FloatOfStripped(Strip(x.v))
    ELSE [ok |-> FALSE, h |-> 0]

(***************************************************************************)
(* Python dicts: the items in insertion order.                             *)
(***************************************************************************)
Keys(d) == [i \in 1..Len(d) |-> d[i].key]

Has(d, key) == \E i \in 1..Len(d) : d[i].key = key

IndexOf(d, key) == CHOOSE i \in 1..Len(d) : d[i].key = key

\* d[key]
Get(d, key) == d[IndexOf(d, key)].val

\* d[key] = val: in place when the key is present, at the end otherwise.
Set(d, key, val) ==
    IF Has(d, key)
    THEN [d EXCEPT ![IndexOf(d, key)] = [key |-> key, val |-> val]]
    ELSE Append(d, [key |-> key, val |-> val])

(***************************************************************************)
(* JSON: json.dumps writes tokens, json.loads parses them.                 *)
(***************************************************************************)
LBrace == [j |-> "{", s |-> <<>>]

RBrace == [j |-> "}", s |-> <<>>]

StringTok(s) == [j |-> "string", s |-> s]

NumberTok(s) == [j |-> "number", s |-> s]

\* A str is written as a JSON string, an int or a float as a JSON number.
DumpLeaf(x) ==
    IF x.k = "str" THEN StringTok(x.v)
    ELSE IF x.k = "int" THEN NumberTok(IntText(x.v))
    ELSE NumberTok(FloatText(x.v))

RECURSIVE DumpLeafItems(_)
DumpLeafItems(rec) ==
    IF rec = <<>> THEN <<>>
    ELSE <<StringTok(rec[1].key), DumpLeaf(rec[1].val)>>
         \o DumpLeafItems(Tail(rec))

RECURSIVE DumpRecordItems(_)
DumpRecordItems(inv) ==
    IF inv = <<>> THEN <<>>
    ELSE <<StringTok(inv[1].key), LBrace>> \o DumpLeafItems(inv[1].val)
         \o <<RBrace>> \o DumpRecordItems(Tail(inv))

\* json.dumps(inventory, indent=4)
json_dumps(inv) == <<LBrace>> \o DumpRecordItems(inv) \o <<RBrace>>

\* A JSON string is read as a str, a JSON number as an int (or, with a
\* fraction, as a float).
LoadLeaf(tok) ==
    IF tok.j = "string" THEN StrVal(tok.s)
    ELSE IF PointAt(tok.s) = 0 THEN IntVal(py_int(StrVal(tok.s)).n)
    ELSE FloatVal(py_float(StrVal(tok.s)).h)

ParseFail == [ok |-> FALSE, val |-> <<>>, next |-> 0]

\* The members of an object of leaves from position i, up to its brace.
RECURSIVE ParseLeafItems(_, _, _)
ParseLeafItems(toks, i, acc) ==
    IF i > Len(toks) THEN ParseFail
    ELSE IF toks[i] = RBrace THEN [ok |-> TRUE, val |-> acc, next |-> i + 1]
    ELSE IF /\ toks[i].j = "string"
            /\ i + 1 <= Len(toks)
            /\ toks[i + 1].j \in {"string", "number"}
    THEN ParseLeafItems(toks, i + 2, Set(acc, toks[i].s, LoadLeaf(toks[i + 1])))
    ELSE ParseFail

RECURSIVE ParseRecordItems(_, _, _)

\* After the record r of the member named key: the members that follow.
AfterRecord(toks, key, acc, r) ==
    IF r.ok THEN ParseRecordItems(toks, r.next, Set(acc, key, r.val))
    ELSE ParseFail

\* The members of the outer object from position i: name, then a record.
ParseRecordItems(toks, i, acc) ==
    IF i > Len(toks) THEN ParseFail
    ELSE IF toks[i] = RBrace THEN [ok |-> TRUE, val |-> acc, next |-> i + 1]
    ELSE IF /\ toks[i].j = "string"
            /\ i + 1 <= Len(toks)
            /\ toks[i + 1] = LBrace
    THEN AfterRecord(toks, toks[i].s, acc, ParseLeafItems(toks, i + 2, <<>>))
    ELSE ParseFail

\* The document is one object and nothing after it.
WholeDocument(toks, r) ==
    IF r.ok /\ r.next = Len(toks) + 1 THEN r ELSE ParseFail

\* json.loads(text): ok = FALSE is JSONDecodeError.
json_loads(toks) ==
    IF toks = <<>> \/ toks[1] # LBrace THEN ParseFail
    ELSE WholeDocument(toks, ParseRecordItems(toks, 2, <<>>))

(***************************************************************************)
(* The backing resource, database/products.json.                           *)
(***************************************************************************)
Missing == [exists |-> FALSE, content |-> <<>>]

Written(toks) == [exists |-> TRUE, content |-> toks]

Ret(ret, f) == [ret |-> ret, file |-> f]

\* What get_raw_inventory returns for a file that exists, given what
\* json.loads made of its content.
Loaded(f, r) == IF r.ok THEN Ret(r.val, f) ELSE Ret(<<>>, f)

\* Variant: a file that does not parse is reset to {} like a missing one.
get_raw_inventory_ResetsUnreadable(f) ==
    IF ~f.exists \/ ~json_loads(f.content).ok
    THEN Ret(<<>>, Written(json_dumps(<<>>)))
    ELSE Ret(json_loads(f.content).val, f)

\* Variant: a missing file is not created.
get_raw_inventory_NoCreate(f) ==
    IF ~f.exists THEN Ret(<<>>, f)
    ELSE Loaded(f, json_loads(f.content))

\* Inventory.get_raw_inventory: [ret, file], the dict returned and the file
\* left behind.  A missing file is created holding {}; a file that does not
\* parse is left as it is.
get_raw_inventory(f) ==
    IF ~f.exists THEN Ret(<<>>, Written(json_dumps(<<>>)))
    ELSE Loaded(f, json_loads(f.content))

\* Variant: the file is opened for appending, so the old content stays.
update_raw_inventory_Appends(f, new_inventory) ==
    Written(f.content \o json_dumps(new_inventory))

\* Inventory.update_raw_inventory: the file after the write.
update_raw_inventory(f, new_inventory) == Written(json_dumps(new_inventory))

(***************************************************************************)
(* The operations of Inventory.  Each is [ret, file]: the value returned   *)
(* (RaiseVal(e) when the call ends in an uncaught exception e) and the     *)
(* file the call leaves behind.                                            *)
(***************************************************************************)
Description == <<"Description">>

Company == <<"Company">>

Price == <<"Price">>

Stock == <<"Stock">>

Category == <<"Category">>

ProductNotFound == StrVal(<<"Product not found.">>)

InvalidPrice == StrVal(<<"Invalid price value. Please check the product data.">>)

InvalidStock == StrVal(<<"Invalid stock value. Please check the product data.">>)

OutOfStock == StrVal(<<"Product is out of stock.">>)

InsufficientStock == StrVal(<<"Insufficient stock available.">>)

\* f"Sold {quantity} of '{product_name}'. New stock: {inventory[product_name]['Stock']}"
SoldMessage(quantity, product_name, stock) ==
    StrVal(<<"Sold ">> \o py_str(quantity).v \o <<" of '">> \o product_name
           \o <<"'. New stock: ">> \o py_str(stock).v)

\* Inventory.get_all_products_names, from the load on
NamesOfLoaded(ld) == Ret(ListVal(Keys(ld.ret)), ld.file)

\* Inventory.get_all_products_names
get_all_products_names(f) == NamesOfLoaded(get_raw_inventory(f))

\* What get_price_of_product returns for float(Price) of a product there is.
PriceAnswer(price) == IF ~price.ok THEN InvalidPrice ELSE FloatVal(price.h)

PriceOfLoaded(ld, product_name) ==
    IF ~Has(ld.ret, product_name) THEN Ret(ProductNotFound, ld.file)
    ELSE Ret(PriceAnswer(py_float(Get(Get(ld.ret, product_name), Price))),
             ld.file)

\* Inventory.get_price_of_product
get_price_of_product(f, product_name) ==
    PriceOfLoaded(get_raw_inventory(f), product_name)

\* Variant: only a negative stock is out of stock, zero is returned.
StockAnswer_ZeroIsStock(stock) ==
    IF ~stock.ok THEN InvalidStock
    ELSE IF stock.n < 0 THEN OutOfStock
    ELSE IntVal(stock.n)

\* What get_stock_of_product returns for int(Stock) of a product there is.
StockAnswer(stock) ==
    IF ~stock.ok THEN InvalidStock
    ELSE IF stock.n = 0 \/ stock.n < 0 THEN OutOfStock
    ELSE IntVal(stock.n)

StockOfLoaded(ld, product_name) ==
    IF ~Has(ld.ret, product_name) THEN Ret(ProductNotFound, ld.file)
    ELSE Ret(StockAnswer(py_int(Get(Get(ld.ret, product_name), Stock))),
             ld.file)

\* Inventory.get_stock_of_product
get_stock_of_product(f, product_name) ==
    StockOfLoaded(get_raw_inventory(f), product_name)

DetailsOfLoaded(ld, product_name) ==
    IF ~Has(ld.ret, product_name) THEN Ret(NoneVal, ld.file)
    ELSE Ret(DictVal(Get(ld.ret, product_name)), ld.file)

\* Inventory.get_details_of_product
get_details_of_product(f, product_name) ==
    DetailsOfLoaded(get_raw_inventory(f), product_name)

\* Variant: the stock of a new record is stored as given, without str().
NewRecord_StockAsGiven(description, company, price, stock, category) ==
    <<[key |-> Description, val |-> description],
      [key |-> Company, val |-> company],
      [key |-> Price, val |-> py_str(price)],
      [key |-> Stock, val |-> stock],
      [key |-> Category, val |-> category]>>

\* The record add_product builds for a name that is not in the inventory.
NewRecord(description, company, price, stock, category) ==
    <<[key |-> Description, val |-> description],
      [key |-> Company, val |-> company],
      [key |-> Price, val |-> py_str(price)],
      [key |-> Stock, val |-> py_str(stock)],
      [key |-> Category, val |-> category]>>

\* Variant: the supplied stock replaces the stored one instead of adding.
StockSum_Overwrites(a, b) ==
    IF a.ok /\ b.ok THEN [ok |-> TRUE, val |-> IntVal(b.n)]
    ELSE [ok |-> FALSE, val |-> NoneVal]

\* int(old) + int(stock), ok = FALSE when either int() raises ValueError.
StockSum(a, b) ==
    IF a.ok /\ b.ok THEN [ok |-> TRUE, val |-> IntVal(a.n + b.n)]
    ELSE [ok |-> FALSE, val |-> NoneVal]

\* Variant: raw_stock_value is ignored and the stock is always added.
UpdatedStock_AlwaysMerges(old, stock, raw_stock_value) ==
    IF py_int(old).ok /\ py_int(stock).ok
    THEN [ok |-> TRUE, val |-> IntVal(py_int(old).n + py_int(stock).n)]
    ELSE [ok |-> FALSE, val |-> NoneVal]

\* The value add_product assigns to Stock of a product that exists: the
\* argument itself in replace mode, the int sum in merge mode.
UpdatedStock(old, stock, raw_stock_value) ==
    IF raw_stock_value THEN [ok |-> TRUE, val |-> stock]
    ELSE StockSum(py_int(old), py_int(stock))

\* The assignments to Description, Company and Price of a record that exists.
Overwritten(record, description, company, price) ==
    Set(Set(Set(record, Description, description), Company, company),
        Price, py_str(price))

\* The end of the branch for a product that exists: the assignments to Stock
\* and Category and the write, or the ValueError of int() with nothing
\* written.
StoreUpdated(ld, product_name, record, st, category) ==
    IF ~st.ok THEN Ret(RaiseVal("ValueError"), ld.file)
    ELSE Ret(NoneVal,
             update_raw_inventory(ld.file,
                 Set(ld.ret, product_name,
                     Set(Set(record, Stock, st.val), Category, category))))

UpdateExisting(ld, product_name, record, description, company, price, stock, category, raw_stock_value) ==
    StoreUpdated(ld, product_name,
                 Overwritten(record, description, company, price),
                 UpdatedStock(Get(record, Stock), stock, raw_stock_value),
                 category)

\* Variant: a new product is written alone, the records loaded are dropped.
AddToLoaded_WritesOnlyNew(ld, product_name, description, company, price, stock, category, raw_stock_value) ==
    IF Has(ld.ret, product_name)
    THEN UpdateExisting(ld, product_name, Get(ld.ret, product_name),
                        description, company, price, stock, category,
                        raw_stock_value)
    ELSE Ret(NoneVal,
             update_raw_inventory(ld.file,
                 Set(<<>>, product_name,
                     NewRecord(description, company, price, stock, category))))

AddToLoaded(ld, product_name, description, company, price, stock, category, raw_stock_value) ==
    IF Has(ld.ret, product_name)
    THEN UpdateExisting(ld, product_name, Get(ld.ret, product_name),
                        description, company, price, stock, category,
                        raw_stock_value)
    ELSE Ret(NoneVal,
             update_raw_inventory(ld.file,
                 Set(ld.ret, product_name,
                     NewRecord(description, company, price, stock, category))))

\* Inventory.add_product
add_product(f, product_name, description, company, price, stock, category, raw_stock_value) ==
    AddToLoaded(get_raw_inventory(f), product_name, description, company,
                price, stock, category, raw_stock_value)

\* Variant: the comparison is <=, so a sale of the whole stock is refused.
Insufficient_AtOrBelow(current_stock, quantity) == current_stock <= quantity

\* Variant: the operands of the comparison are swapped.
Insufficient_Swapped(current_stock, quantity) == quantity < current_stock

\* Whether sell_product refuses the sale.
Insufficient(current_stock, quantity) == current_stock < quantity

\* The sale itself: the new stock as text, written and reported.
Sold(ld, product_name, quantity, new_stock) ==
    Ret(SoldMessage(IntVal(quantity), product_name, new_stock),
        update_raw_inventory(ld.file,
            Set(ld.ret, product_name,
                Set(Get(ld.ret, product_name), Stock, new_stock))))

SellStock(ld, product_name, quantity, current_stock) ==
    IF ~current_stock.ok THEN Ret(RaiseVal("ValueError"), ld.file)
    ELSE IF Insufficient(current_stock.n, quantity)
    THEN Ret(InsufficientStock, ld.file)
    ELSE Sold(ld, product_name, quantity,
              py_str(IntVal(current_stock.n - quantity)))

SellLoaded(ld, product_name, quantity) ==
    IF ~Has(ld.ret, product_name) THEN Ret(ProductNotFound, ld.file)
    ELSE SellStock(ld, product_name, quantity,
                   py_int(Get(Get(ld.ret, product_name), Stock)))

\* Inventory.sell_product
sell_product(f, product_name, quantity) ==
    SellLoaded(get_raw_inventory(f), product_name, quantity)

\* The set that get_all_categories collects.
Categories(inventory) ==
    {Get(inventory[i].val, Category) : i \in 1..Len(inventory)}

\* The orders in which list(categories) may enumerate a set.
Orderings(S) ==
    {s \in [1..Cardinality(S) -> S] : \A x \in S : \E i \in DOMAIN s : s[i] = x}

\* Variant: the categories are collected in a list, one entry a record.
CategoriesOfLoaded_ListsEveryRecord(ld) ==
    {Ret(ListVal([i \in 1..Len(ld.ret) |-> Get(ld.ret[i].val, Category)]),
         ld.file)}

CategoriesOfLoaded(ld) ==
    {Ret(ListVal(order), ld.file) : order \in Orderings(Categories(ld.ret))}

\* Inventory.get_all_categories: the results it may give, one for each order
\* in which list() enumerates the set.
get_all_categories(f) == CategoriesOfLoaded(get_raw_inventory(f))

(***************************************************************************)
(* The inputs of the calls.                                                *)
(***************************************************************************)
Names == {<<"Fan">>, <<"Lamp">>}

\* description, company, price and category as one caller supplies them:
\* a float price (as the "add a product" menu passes) and a text price that
\* is no number.
Profiles ==
    {[description |-> StrVal(<<"A desk fan">>), company |-> StrVal(<<"Acme">>),
      price |-> FloatVal(250), category |-> StrVal(<<"Appliance">>)],
     [description |-> StrVal(<<"A lamp">>), company |-> StrVal(<<"Bolt">>),
      price |-> StrVal(<<"x">>), category |-> StrVal(<<"Lighting">>)]}

\* stock arguments: ints and text, negative, and text that is no number.
Stocks == {IntVal(2), IntVal(-1), StrVal(<<"1">>), StrVal(<<"x">>)}

Quantities == (-MaxQuantity)..MaxQuantity

FanRecord ==
    NewRecord(StrVal(<<"A desk fan">>), StrVal(<<"Acme">>),
              StrVal(<<"2", ".", "5">>), StrVal(<<"2">>), StrVal(<<"Appliance">>))

LampRecord ==
    NewRecord(StrVal(<<"A lamp">>), StrVal(<<"Bolt">>),
              StrVal(<<"x">>), StrVal(<<"1">>), StrVal(<<"Lighting">>))

\* inventories handed to update_raw_inventory
Inventories ==
    {<<>>,
     <<[key |-> <<"Lamp">>, val |-> LampRecord]>>,
     <<[key |-> <<"Lamp">>, val |-> LampRecord],
       [key |-> <<"Fan">>, val |-> FanRecord]>>}

Abs(n) == IF n < 0 THEN -n ELSE n

Within(stock) == stock.ok => Abs(stock.n) <= MaxStock

AllWithin(inventory) ==
    \A i \in 1..Len(inventory) :
        Within(py_int(Get(inventory[i].val, Stock)))

\* Every stock the file holds that reads as an int is within MaxStock.
StockWithin(f) == AllWithin(get_raw_inventory(f).ret)

(***************************************************************************)
(* The state: the file, and the call the caller has just made (its         *)
(* arguments, what it returned and the file it found), or NoCall while     *)
(* the caller is choosing the next call.  procs and steps are the two      *)
(* programs of SpecRace below and the order of their steps; with one       *)
(* caller there are none.                                                  *)
(***************************************************************************)
NoCall ==
    [op |-> "none", name |-> <<>>, args |-> <<>>, ret |-> NoneVal,
     before |-> Missing]

Called(op, name, args, ret) ==
    [op |-> op, name |-> name, args |-> args, ret |-> ret, before |-> file]

\* The file before the first call: absent, empty, cut short, or holding {}.
Init ==
    /\ file \in {Missing, Written(<<>>), Written(<<LBrace>>),
                 Written(json_dumps(<<>>))}
    /\ last = NoCall
    /\ procs = <<>>
    /\ steps = <<>>

\* The call op(name, args) ends with r = [ret, file].
Respond(op, name, args, r) ==
    /\ file' = r.file
    /\ last' = Called(op, name, args, r.ret)
    /\ UNCHANGED <<procs, steps>>

\* The same, for the calls that change stock: kept within MaxStock.
RespondWithin(op, name, args, r) ==
    /\ StockWithin(r.file)
    /\ Respond(op, name, args, r)

RawInventoryResult(r) == Ret(DictVal(r.ret), r.file)

GetRawInventory ==
    /\ last = NoCall
    /\ Respond("get_raw_inventory", <<>>, <<>>,
               RawInventoryResult(get_raw_inventory(file)))

GetAllProductsNames ==
    /\ last = NoCall
    /\ Respond("get_all_products_names", <<>>, <<>>,
               get_all_products_names(file))

GetPriceOfProduct ==
    /\ last = NoCall
    /\ \E name \in Names :
         Respond("get_price_of_product", name, <<>>,
                 get_price_of_product(file, name))

GetStockOfProduct ==
    /\ last = NoCall
    /\ \E name \in Names :
         Respond("get_stock_of_product", name, <<>>,
                 get_stock_of_product(file, name))

GetDetailsOfProduct ==
    /\ last = NoCall
    /\ \E name \in Names :
         Respond("get_details_of_product", name, <<>>,
                 get_details_of_product(file, name))

UpdateRawInventory ==
    /\ last = NoCall
    /\ \E inv \in Inventories :
         Respond("update_raw_inventory", <<>>, inv,
                 Ret(NoneVal, update_raw_inventory(file, inv)))

AddProduct ==
    /\ last = NoCall
    /\ \E name \in Names, p \in Profiles, stock \in Stocks, raw \in BOOLEAN :
         RespondWithin("add_product", name,
                       [description |-> p.description, company |-> p.company,
                        price |-> p.price, stock |-> stock,
                        category |-> p.category, raw_stock_value |-> raw],
                       add_product(file, name, p.description, p.company,
                                   p.price, stock, p.category, raw))

SellProduct ==
    /\ last = NoCall
    /\ \E name \in Names, quantity \in Quantities :
         RespondWithin("sell_product", name, quantity,
                       sell_product(file, name, quantity))

GetAllCategories ==
    /\ last = NoCall
    /\ \E r \in get_all_categories(file) :
         Respond("get_all_categories", <<>>, <<>>, r)

\* The caller has used the result and goes on to its next call.
NextCall ==
    /\ last # NoCall
    /\ last' = NoCall
    /\ UNCHANGED <<file, procs, steps>>

Next ==
    \/ GetRawInventory
    \/ GetAllProductsNames
    \/ GetPriceOfProduct
    \/ GetStockOfProduct
    \/ GetDetailsOfProduct
    \/ UpdateRawInventory
    \/ AddProduct
    \/ SellProduct
    \/ GetAllCategories
    \/ NextCall

Spec == Init /\ [][Next]_vars

(***************************************************************************)
(* Two programs on one file.  Each makes one call on the same product,     *)
(* sell_product or add_product in merge mode.  The call is two steps: the  *)
(* load, inventory = self.get_raw_inventory(), and the rest of the method  *)
(* on the inventory it holds, ending with the write when it writes.  The   *)
(* code takes no lock, so the steps of the two interleave freely.          *)
(***************************************************************************)
RaceName == <<"Fan">>

\* The calls a program may make.
RaceJobs ==
    {[op |-> "sell_product", name |-> RaceName, args |-> quantity] :
         quantity \in 1..MaxQuantity}
    \cup
    {[op |-> "add_product", name |-> RaceName,
      args |-> [description |-> StrVal(<<"A desk fan">>),
                company |-> StrVal(<<"Acme">>), price |-> FloatVal(250),
                stock |-> stock, category |-> StrVal(<<"Appliance">>),
                raw_stock_value |-> FALSE]] : stock \in Stocks}

\* The files the two programs start on: the product with a stock of 1..MaxStock.
RaceFiles ==
    {Written(json_dumps(<<[key |-> RaceName,
                           val |-> Set(FanRecord, Stock, py_str(IntVal(s)))]>>)) :
         s \in 1..MaxStock}

\* A program about to make its call.
Starting(job) == [job |-> job, pc |-> "start", ld |-> <<>>, ret |-> NoneVal]

RaceInit ==
    /\ file \in RaceFiles
    /\ last = NoCall
    /\ procs \in [1..2 -> {Starting(job) : job \in RaceJobs}]
    /\ steps = <<>>

\* The rest of the method after the load, on the inventory and file of ld.
Finish(job, ld) ==
    IF job.op = "sell_product" THEN SellLoaded(ld, job.name, job.args)
    ELSE AddToLoaded(ld, job.name, job.args.description, job.args.company,
                     job.args.price, job.args.stock, job.args.category,
                     job.args.raw_stock_value)

\* Variant: the program loads the file again before it goes on.
Held_Reloads(p) == get_raw_inventory(file)

\* What program p goes on with: the inventory it loaded, which the file may
\* no longer hold, and the file as it is now.
Held(p) == Ret(procs[p].ld, file)

Step(p, pc, ld, ret, f, step) ==
    /\ procs' = [procs EXCEPT ![p] = [job |-> procs[p].job, pc |-> pc,
                                      ld |-> ld, ret |-> ret]]
    /\ file' = f
    /\ steps' = Append(steps, <<p, step>>)
    /\ UNCHANGED last

RaceLoaded(p, r) == Step(p, "loaded", r.ret, NoneVal, r.file, "load")

RaceFinished(p, r) == Step(p, "done", procs[p].ld, r.ret, r.file, "persist")

\* inventory = self.get_raw_inventory()
RaceLoad ==
    \E p \in DOMAIN procs :
        /\ procs[p].pc = "start"
        /\ RaceLoaded(p, get_raw_inventory(file))

\* the lines after it, to the return
RacePersist ==
    \E p \in DOMAIN procs :
        /\ procs[p].pc = "loaded"
        /\ RaceFinished(p, Finish(procs[p].job, Held(p)))

RaceNext ==
    \/ RaceLoad
    \/ RacePersist

SpecRace == RaceInit /\ [][RaceNext]_vars

(***************************************************************************)
(* What the claims speak of: the inventory the last call found, the one    *)
(* it left, and the record and stock of the product it named.              *)
(***************************************************************************)
InventoryBefore == get_raw_inventory(last.before).ret

\* The inventory a load of the file as it is now returns.
InventoryNow == get_raw_inventory(file).ret

\* The name the last call was given was a key of the inventory it loaded.
NameWasPresent == Has(InventoryBefore, last.name)

\* The record of that name before the call, and after it.
RecordBefore == Get(InventoryBefore, last.name)

RecordNow == Get(InventoryNow, last.name)

\* int() of the Stock of that record before the call, and after it.
StockBefore == py_int(Get(RecordBefore, Stock))

StockNow == py_int(Get(RecordNow, Stock))

\* The text a number argument is stored as; text stays itself.
TextForm(x) ==
    CASE x = FloatVal(250) -> StrVal(<<"2", ".", "5">>)
      [] x = IntVal(2) -> StrVal(<<"2">>)
      [] x = IntVal(-1) -> StrVal(<<"-", "1">>)
      [] OTHER -> x

\* The record holds the description, company, price and category supplied.
HoldsSupplied(record, args) ==
    /\ Get(record, Description) = args.description
    /\ Get(record, Company) = args.company
    /\ Get(record, Price) = TextForm(args.price)
    /\ Get(record, Category) = args.category

(***************************************************************************)
(* C1.  No Stock value the store writes is negative: in every file the     *)
(* calls leave, every stock that reads as an int is >= 0.                  *)
(* add_product writes a negative stock argument as it is (new record,      *)
(* replace mode) or adds it (merge mode), so the statement fails.          *)
(***************************************************************************)
C1_NoNegativeStockWritten ==
    \A i \in 1..Len(InventoryNow) :
        LET stock == py_int(Get(InventoryNow[i].val, Stock))
        IN  stock.ok => stock.n >= 0

\* C2: the last call was sell_product(name, q) with q <= s.
C2_SaleApplies ==
    /\ last.op = "sell_product"
    /\ NameWasPresent
    /\ StockBefore.ok
    /\ last.args <= StockBefore.n

\* C2: the message written out as the code formats it, and the stock persisted as text.
C2_SaleReported ==
    /\ last.ret = StrVal(<<"Sold ">> \o IntText(last.args) \o <<" of '">>
                         \o last.name \o <<"'. New stock: ">>
                         \o IntText(StockBefore.n - last.args))
    /\ Get(RecordNow, Stock) = StrVal(IntText(StockBefore.n - last.args))

\* C2: the same sale made again on the file as it is now.
C2_SaleRepeats ==
    last.args <= StockBefore.n - last.args =>
        LET again == sell_product(file, last.name, last.args)
        IN  /\ again.ret.k = "str"
            /\ py_int(Get(Get(get_raw_inventory(again.file).ret, last.name),
                          Stock)).n = StockBefore.n - 2 * last.args

(***************************************************************************)
(* C2.  As claimed: a sale of q <= s of an existing product with readable  *)
(* stock s returns the success message carrying s - q, persists s - q as   *)
(* text, a following get_stock_of_product returns exactly s - q, and the   *)
(* same sale again (when q <= s - q) leaves s - 2q.  Fails for q = s:      *)
(* get_stock_of_product then returns the out-of-stock message, not 0.      *)
(***************************************************************************)
C2_SellThenGetStockExact ==
    C2_SaleApplies =>
        /\ C2_SaleReported
        /\ get_stock_of_product(file, last.name).ret
               = IntVal(StockBefore.n - last.args)
        /\ C2_SaleRepeats

(***************************************************************************)
(* C2, amended.  The same, except that the following get_stock_of_product  *)
(* returns s - q only when s - q > 0 and the out-of-stock message when     *)
(* s - q = 0.                                                              *)
(***************************************************************************)
C2_SellThenGetStock ==
    C2_SaleApplies =>
        /\ C2_SaleReported
        /\ get_stock_of_product(file, last.name).ret
               = IF StockBefore.n - last.args > 0
                 THEN IntVal(StockBefore.n - last.args)
                 ELSE OutOfStock
        /\ C2_SaleRepeats

\* C2: a sale of q > 0 that left at least q in stock, read back by get_stock_of_product.
C2_Witness ==
    /\ C2_SaleApplies
    /\ last.args > 0
    /\ last.args <= StockBefore.n - last.args
    /\ get_stock_of_product(file, last.name).ret = IntVal(StockBefore.n - last.args)

\* C3: the last call was sell_product(name, q) with q > s.
C3_Refused ==
    /\ last.op = "sell_product"
    /\ NameWasPresent
    /\ StockBefore.ok
    /\ last.args > StockBefore.n

(***************************************************************************)
(* C3.  A sale of q > s of an existing product with stock s returns the    *)
(* insufficient-stock message and leaves the file exactly as it was.       *)
(***************************************************************************)
C3_InsufficientLeavesInventory ==
    C3_Refused =>
        /\ last.ret = InsufficientStock
        /\ file = last.before
        /\ Get(RecordNow, Stock) = Get(RecordBefore, Stock)

\* C3: a sale refused for a product in stock, with another product on file.
C3_Witness == C3_Refused /\ StockBefore.n > 0 /\ Len(InventoryBefore) = 2

\* C4: the last call looked up a name that was not a key.
C4_LookupOfAbsentName ==
    /\ last.op \in {"get_price_of_product", "get_stock_of_product",
                    "get_details_of_product", "sell_product"}
    /\ ~NameWasPresent

C5_AddedNew == last.op = "add_product" /\ ~NameWasPresent

(***************************************************************************)
(* C5.  add_product of a name that is not in the inventory, followed by    *)
(* get_details_of_product, returns the record of exactly the supplied      *)
(* values, numbers in their text form, Stock being the supplied stock      *)
(* itself.                                                                 *)
(***************************************************************************)
C5_AddNewThenDetails ==
    C5_AddedNew =>
        LET details == get_details_of_product(file, last.name).ret
        IN  /\ details.k = "dict"
            /\ Keys(details.v) = <<Description, Company, Price, Stock, Category>>
            /\ HoldsSupplied(details.v, last.args)
            /\ Get(details.v, Stock) = TextForm(last.args.stock)

\* C5: a second product added with an int stock and a float price.
C5_Witness ==
    /\ C5_AddedNew
    /\ last.args.stock = IntVal(2)
    /\ last.args.price = FloatVal(250)
    /\ Len(InventoryBefore) = 1

\* C6: the last call was a merge-mode add_product on a product with stock s and delta d.
C6_Merged ==
    /\ last.op = "add_product"
    /\ ~last.args.raw_stock_value
    /\ NameWasPresent
    /\ StockBefore.ok
    /\ py_int(last.args.stock).ok

\* C6: a second merge-mode add_product with delta d2 on the file as it is now.
C6_SecondMerge(d2) ==
    LET again == add_product(file, last.name, last.args.description,
                             last.args.company, last.args.price, d2,
                             last.args.category, FALSE)
    IN  py_int(Get(Get(get_raw_inventory(again.file).ret, last.name), Stock))
            = [ok |-> TRUE,
               n |-> StockBefore.n + py_int(last.args.stock).n + py_int(d2).n]

(***************************************************************************)
(* C6.  Merge mode on an existing product with stock s and delta d leaves  *)
(* the persisted stock equal to s + d and overwrites Description, Company, *)
(* Price and Category; a second merge with d2 leaves s + d + d2.           *)
(***************************************************************************)
C6_MergeAddsStock ==
    C6_Merged =>
        /\ last.ret = NoneVal
        /\ StockNow = [ok |-> TRUE, n |-> StockBefore.n + py_int(last.args.stock).n]
        /\ HoldsSupplied(RecordNow, last.args)
        /\ \A d2 \in {IntVal(2), IntVal(-1), StrVal(<<"1">>)} : C6_SecondMerge(d2)

\* C6: a restock of 2 on a stock of 1 that changed the company.
C6_Witness ==
    /\ C6_Merged
    /\ StockBefore.n = 1
    /\ last.args.stock = IntVal(2)
    /\ Get(RecordBefore, Company) # last.args.company

\* C7: the last call was a replace-mode add_product.
C7_Replaced == last.op = "add_product" /\ last.args.raw_stock_value

(***************************************************************************)
(* C7.  Replace mode on an existing product sets Stock to the supplied     *)
(* value itself whatever the stock was, and overwrites Description,        *)
(* Company, Price and Category as merge mode does; for a name that is not  *)
(* in the inventory it leaves the file that merge mode leaves.             *)
(***************************************************************************)
C7_ReplaceSetsStock ==
    C7_Replaced =>
        /\ last.ret = NoneVal
        /\ NameWasPresent =>
              /\ Get(RecordNow, Stock) = last.args.stock
              /\ HoldsSupplied(RecordNow, last.args)
        /\ ~NameWasPresent =>
              /\ HoldsSupplied(RecordNow, last.args)
              /\ file = add_product(last.before, last.name,
                                    last.args.description, last.args.company,
                                    last.args.price, last.args.stock,
                                    last.args.category, FALSE).file

\* C7: a stock of 3 replaced by the text "1".
C7_Witness ==
    /\ C7_Replaced
    /\ NameWasPresent
    /\ StockBefore.ok
    /\ StockBefore.n = 3
    /\ last.args.stock = StrVal(<<"1">>)

(***************************************************************************)
(* C8.  Price and Stock of every persisted record are text, never numbers. *)
(* Merge mode assigns the int sum to Stock and replace mode an int         *)
(* argument as it is, and json.dumps writes them as JSON numbers, so the   *)
(* statement fails.                                                        *)
(***************************************************************************)
C8_PriceAndStockAreText ==
    \A i \in 1..Len(InventoryNow) :
        /\ Get(InventoryNow[i].val, Price).k = "str"
        /\ Get(InventoryNow[i].val, Stock).k = "str"

\* C9: the last call was get_raw_inventory with no file.
C9_LoadedMissing == last.op = "get_raw_inventory" /\ ~last.before.exists

(***************************************************************************)
(* C9.  When the file does not exist, get_raw_inventory returns the empty  *)
(* dict and leaves a file that exists and parses to the empty dict, so     *)
(* that the next get_raw_inventory returns the empty dict from the parse   *)
(* and leaves that file alone.                                             *)
(***************************************************************************)
C9_MissingFileIsCreatedEmpty ==
    C9_LoadedMissing =>
        /\ last.ret = DictVal(<<>>)
        /\ file.exists
        /\ json_loads(file.content) = [ok |-> TRUE, val |-> <<>>,
                                       next |-> Len(file.content) + 1]
        /\ get_raw_inventory(file) = [ret |-> <<>>, file |-> file]

\* C9: such a load has happened and left a file.
C9_Witness == C9_LoadedMissing /\ file.exists

\* C10: records of text fields, numeric text included.
TextRecords ==
    {FanRecord, LampRecord,
     NewRecord(StrVal(<<"">>), StrVal(<<"Acme">>),
               StrVal(<<"2", "9", ".", "9", "9">>), StrVal(<<"1", "0">>),
               StrVal(<<"Appliance">>)),
     NewRecord(StrVal(<<"A lamp">>), StrVal(<<"Bolt">>), StrVal(<<"0">>),
               StrVal(<<"0">>), StrVal(<<"Lighting">>))}

\* C10: the inventories of up to two such records.
TextInventories ==
    {<<>>}
    \cup {<<[key |-> n, val |-> r]>> : n \in Names, r \in TextRecords}
    \cup {<<[key |-> p[1], val |-> r1], [key |-> p[2], val |-> r2]>> :
            p \in {q \in Names \X Names : q[1] # q[2]},
            r1 \in TextRecords, r2 \in TextRecords}

\* C10: the last call was update_raw_inventory(inv).
C10_Updated == last.op = "update_raw_inventory"

(***************************************************************************)
(* C10.  update_raw_inventory(inv) followed by get_raw_inventory() returns *)
(* inv, for every inv of text fields, and nothing of the previous content  *)
(* survives: the file is the one document of inv, whatever it held.        *)
(***************************************************************************)
C10_PersistThenLoad ==
    C10_Updated =>
        /\ get_raw_inventory(file) = [ret |-> last.args, file |-> file]
        /\ \A i \in 1..Len(InventoryBefore) :
              Has(InventoryNow, InventoryBefore[i].key)
                  => /\ Has(last.args, InventoryBefore[i].key)
                     /\ Get(InventoryNow, InventoryBefore[i].key)
                            = Get(last.args, InventoryBefore[i].key)
        /\ \A inv \in TextInventories :
              get_raw_inventory(update_raw_inventory(file, inv)).ret = inv

\* C10: a one-record inventory written over a file of two records.
C10_Witness ==
    /\ C10_Updated
    /\ Len(last.args) = 1
    /\ Len(InventoryBefore) = 2
    /\ Get(InventoryBefore, <<"Lamp">>) # Get(last.args, <<"Lamp">>)

\* C11: the last call was get_all_categories().
C11_Listed == last.op = "get_all_categories"

(***************************************************************************)
(* C11.  get_all_categories returns exactly the distinct Category values   *)
(* of the records: a list, every entry of which is the Category of some    *)
(* record, in which the Category of every record occurs, and in which no   *)
(* value occurs twice.                                                     *)
(***************************************************************************)
C11_CategoriesAreTheDistinctOnes ==
    C11_Listed =>
        /\ last.ret.k = "list"
        /\ \A j \in 1..Len(last.ret.v) :
              \E i \in 1..Len(InventoryBefore) :
                  last.ret.v[j] = Get(InventoryBefore[i].val, Category)
        /\ \A i \in 1..Len(InventoryBefore) :
              \E j \in 1..Len(last.ret.v) :
                  last.ret.v[j] = Get(InventoryBefore[i].val, Category)
        /\ \A j1, j2 \in 1..Len(last.ret.v) :
              last.ret.v[j1] = last.ret.v[j2] => j1 = j2

\* C11: two records of one category, listed once.
C11_Witness ==
    /\ C11_Listed
    /\ Len(InventoryBefore) = 2
    /\ Get(InventoryBefore[1].val, Category)
           = Get(InventoryBefore[2].val, Category)
    /\ Len(last.ret.v) = 1

\* C12: the last call was get_stock_of_product(name) of a product there is.
C12_StockAsked ==
    /\ last.op = "get_stock_of_product"
    /\ NameWasPresent

(***************************************************************************)
(* C12.  For a product there is, get_stock_of_product returns the          *)
(* out-of-stock message when the stored Stock reads as an int <= 0, the    *)
(* invalid-stock message when it does not read as an int, and otherwise    *)
(* the stock as a positive int; the out-of-stock message is not the        *)
(* not-found message.                                                      *)
(***************************************************************************)
C12_StockAnswers ==
    C12_StockAsked =>
        /\ (StockBefore.ok /\ StockBefore.n <= 0) =>
               last.ret = StrVal(<<"Product is out of stock.">>)
        /\ ~StockBefore.ok =>
               last.ret = StrVal(<<"Invalid stock value. Please check the product data.">>)
        /\ (StockBefore.ok /\ StockBefore.n > 0) =>
               /\ last.ret = IntVal(StockBefore.n)
               /\ last.ret.v > 0
        /\ last.ret # StrVal(<<"Product not found.">>)
        /\ StrVal(<<"Product is out of stock.">>) # StrVal(<<"Product not found.">>)

\* C12: the stock of a product whose stored Stock is "0", left by a sale of
\* all of it.
C12_Witness ==
    /\ C12_StockAsked
    /\ Get(RecordBefore, Stock) = StrVal(<<"0">>)
    /\ last.ret = OutOfStock

\* C13: both programs have returned.
C13_BothDone == \A p \in DOMAIN procs : procs[p].pc = "done"

\* C13: program p reported success: the sale message, or the None of
\* add_product.
C13_Succeeded(p) ==
    IF procs[p].job.op = "sell_product"
    THEN /\ procs[p].ret.k = "str"
         /\ procs[p].ret # StrVal(<<"Product not found.">>)
         /\ procs[p].ret # StrVal(<<"Insufficient stock available.">>)
    ELSE procs[p].ret = NoneVal

\* C13: what the call of program p adds to the stock.
C13_Delta(p) ==
    IF procs[p].job.op = "sell_product" THEN -procs[p].job.args
    ELSE py_int(procs[p].job.args.stock).n

\* C13: the stock the first load found, and the stock the file holds now.
C13_StockAtStart ==
    py_int(Get(Get(procs[steps[1][1]].ld, RaceName), Stock)).n

C13_StockAtEnd == py_int(Get(Get(InventoryNow, RaceName), Stock)).n

\* C13: one program loaded and returned before the other loaded.
C13_OneAfterTheOther == steps[2][1] = steps[1][1]

\* C13: the program that made the last step, which is the last to write.
C13_LastWriter == steps[Len(steps)][1]

(***************************************************************************)
(* C13.  Two programs each sell or merge-add the same product and both     *)
(* report success.  When one ran after the other had returned, the stock   *)
(* persisted is the starting stock plus both deltas.  When the second      *)
(* load came before the first write, it is the starting stock plus the     *)
(* delta of the last writer alone: the other update is lost.               *)
(***************************************************************************)
C13_LostUpdateOnlyWhenInterleaved ==
    (C13_BothDone /\ C13_Succeeded(1) /\ C13_Succeeded(2)) =>
        IF C13_OneAfterTheOther
        THEN C13_StockAtEnd = C13_StockAtStart + C13_Delta(1) + C13_Delta(2)
        ELSE C13_StockAtEnd = C13_StockAtStart + C13_Delta(C13_LastWriter)

\* C13: a sale and a merge interleaved, both successful, and the stock
\* persisted lacks the delta of the one that wrote first.
C13_Witness ==
    /\ procs # <<>>
    /\ C13_BothDone
    /\ C13_Succeeded(1)
    /\ C13_Succeeded(2)
    /\ procs[1].job.op # procs[2].job.op
    /\ ~C13_OneAfterTheOther
    /\ C13_StockAtEnd = C13_StockAtStart + C13_Delta(C13_LastWriter)
    /\ C13_StockAtEnd # C13_StockAtStart + C13_Delta(1) + C13_Delta(2)

\* C14: the last call was one of the four lookups and sales the claim names.
C14_Asked ==
    last.op \in {"get_price_of_product", "get_stock_of_product",
                 "get_details_of_product", "sell_product"}

(***************************************************************************)
(* C14.  get_price_of_product, get_stock_of_product,                       *)
(* get_details_of_product and sell_product always end by returning a       *)
(* value, never in an uncaught exception, whatever the file holds.         *)
(* sell_product calls int() on the stored Stock outside any try, so on a   *)
(* record whose Stock is no number it ends in ValueError.                  *)
(***************************************************************************)
C14_AlwaysReturns == C14_Asked => last.ret.k # "raise"

\* C15: the last call was add_product with a price that float() rejects or
\* a stock that int() rejects.
C15_UnparseableArgument ==
    /\ last.op = "add_product"
    /\ \/ ~py_float(last.args.price).ok
       \/ ~py_int(last.args.stock).ok

(***************************************************************************)
(* C15.  add_product with a price or a stock that is no number ends in     *)
(* the ValueError of the conversion, whether or not the name is there and  *)
(* in both modes, and then the file is as it was.  The code converts       *)
(* nothing but the stock of merge mode on a product that exists: in every  *)
(* other case it returns None and writes the text as it was given.         *)
(***************************************************************************)
C15_UnparseableArgumentRaises ==
    C15_UnparseableArgument =>
        /\ last.ret = RaiseVal("ValueError")
        /\ file = last.before

\* C16: the last call was one of the five read-only operations.
C16_Read ==
    last.op \in {"get_price_of_product", "get_stock_of_product",
                 "get_details_of_product", "get_all_products_names",
                 "get_all_categories"}

(***************************************************************************)
(* C16.  As claimed: the five read-only operations leave the file exactly  *)
(* as it was, whether it held an inventory, held text that does not        *)
(* parse, or was missing.  Fails for a missing file, which the load of     *)
(* each of them creates.                                                   *)
(***************************************************************************)
C16_ReadLeavesFileAlways == C16_Read => file = last.before

(***************************************************************************)
(* C16, amended.  The five read-only operations leave a file that exists   *)
(* exactly as it was, whether or not it parses; a missing file they        *)
(* create, holding the empty inventory {}.                                 *)
(***************************************************************************)
C16_ReadLeavesExistingFile ==
    C16_Read =>
        IF last.before.exists THEN file = last.before
        ELSE file = [exists |-> TRUE, content |-> <<LBrace, RBrace>>]

\* C16: the product names asked of a file that does not parse, which stays
\* as it was.
C16_Witness ==
    /\ last.op = "get_all_products_names"
    /\ last.before.exists
    /\ ~json_loads(last.before.content).ok
    /\ file = last.before

\* C17: the last call was get_raw_inventory() on a file that exists and
\* does not parse.
C17_LoadedMalformed ==
    /\ last.op = "get_raw_inventory"
    /\ last.before.exists
    /\ ~json_loads(last.before.content).ok

(***************************************************************************)
(* C17.  get_raw_inventory on a file that exists and does not parse        *)
(* returns the empty dict, which is what it returns for a file holding     *)
(* {}, and leaves the content of the file as it was.                       *)
(***************************************************************************)
C17_MalformedLoadsEmpty ==
    C17_LoadedMalformed =>
        /\ last.ret = [k |-> "dict", v |-> <<>>]
        /\ last.ret.v
               = get_raw_inventory([exists |-> TRUE,
                                    content |-> <<LBrace, RBrace>>]).ret
        /\ file = last.before

\* C17: the load of a file cut short after its opening brace.
C17_Witness ==
    /\ C17_LoadedMalformed
    /\ last.before.content = <<LBrace>>
    /\ last.ret.v = <<>>

\* C18: the product names an inventory holds.
C18_Names(inventory) == {inventory[i].key : i \in 1..Len(inventory)}

\* C18: inventory now holds the record inventory before held of every
\* product other than the one the last call named.
C18_OthersKept(before, now) ==
    \A name \in C18_Names(before) \ {last.name} :
        /\ Has(now, name)
        /\ Get(now, name) = Get(before, name)

\* C18: no name of before is missing from now, and now has none more but
\* the name given to add_product.
C18_NamesGrew(before, now) ==
    /\ C18_Names(before) \subseteq C18_Names(now)
    /\ C18_Names(now) \ C18_Names(before)
           \subseteq (IF last.op = "add_product" THEN {last.name} ELSE {})

(***************************************************************************)
(* C18.  As claimed: add_product(n, ...) and sell_product(n, q) leave the  *)
(* record of every other product as it was, and no operation of the store  *)
(* removes a product name: after any call the names persisted are those    *)
(* persisted before it, and with them at most the name given to            *)
(* add_product.  Fails for update_raw_inventory, which puts its argument   *)
(* in the place of whatever the file held.                                 *)
(***************************************************************************)
C18_NoCallRemovesNames ==
    last.op # "none" =>
        LET before == InventoryBefore
            now == InventoryNow
        IN  /\ last.op \in {"add_product", "sell_product"}
                   => C18_OthersKept(before, now)
            /\ C18_NamesGrew(before, now)

(***************************************************************************)
(* C18, amended.  The same for every operation but update_raw_inventory:   *)
(* add_product and sell_product leave the record of every other product    *)
(* as it was, and after any call other than update_raw_inventory the       *)
(* names persisted are those persisted before it, and with them at most    *)
(* the name given to add_product.                                          *)
(***************************************************************************)
C18_NoQueryOrMutationRemovesNames ==
    last.op \notin {"none", "update_raw_inventory"} =>
        LET before == InventoryBefore
            now == InventoryNow
        IN  /\ last.op \in {"add_product", "sell_product"}
                   => C18_OthersKept(before, now)
            /\ C18_NamesGrew(before, now)

\* C18: a product added to a file that held another, whose record stays.
C18_Witness ==
    /\ last.op = "add_product"
    /\ Len(InventoryBefore) = 1
    /\ ~NameWasPresent
    /\ C18_Names(InventoryNow) = C18_Names(InventoryBefore) \cup {last.name}
    /\ Get(InventoryNow, InventoryBefore[1].key) = InventoryBefore[1].val

\* C19: the last call found a file that exists and does not parse.
C19_WasMalformed ==
    /\ last.before.exists
    /\ ~json_loads(last.before.content).ok

\* C19: the file parses and holds one record, under the name given, with
\* the values given and the stock argument as text.
C19_HoldsOnlyTheNewRecord ==
    /\ json_loads(file.content).ok
    /\ Len(InventoryNow) = 1
    /\ InventoryNow[1].key = last.name
    /\ DOMAIN InventoryNow[1].val = 1..5
    /\ HoldsSupplied(InventoryNow[1].val, last.args)
    /\ Get(InventoryNow[1].val, Stock) = TextForm(last.args.stock)

(***************************************************************************)
(* C19.  On a file that exists and does not parse, add_product(n, ...)     *)
(* returns None and leaves a file that parses and holds exactly one        *)
(* record, that of n, made as for a new product, its Stock the stock       *)
(* argument as text in either mode; sell_product returns the not-found     *)
(* message and leaves the content that does not parse in place.            *)
(***************************************************************************)
C19_MalformedAddReplacesSellKeeps ==
    C19_WasMalformed =>
        /\ last.op = "add_product" =>
               /\ last.ret = NoneVal
               /\ file.exists
               /\ C19_HoldsOnlyTheNewRecord
        /\ last.op = "sell_product" =>
               /\ last.ret = StrVal(<<"Product not found.">>)
               /\ file = last.before

\* C19: a merge-mode add_product on a file cut short, leaving one record
\* whose Stock is the argument.
C19_Witness ==
    /\ C19_WasMalformed
    /\ last.op = "add_product"
    /\ ~last.args.raw_stock_value
    /\ last.before.content = <<LBrace>>
    /\ Len(InventoryNow) = 1
    /\ Get(InventoryNow[1].val, Stock) = StrVal(<<"2">>)

====
